---- MODULE Spec2Model ----
(***************************************************************************)
(* A model of filter-dnsblscore (filter-dnsblscore.go): the startup of     *)
(* main (skipConfig, filterInit), its dispatcher loop, the report and      *)
(* filter handlers, the background response goroutines, the output         *)
(* channel and its writer goroutine.                                       *)
(*                                                                         *)
(* Text is modelled by its structure.  An input field is the sequence of  *)
(* its ":"-separated pieces (what strings.Split(field, ":") returns); a    *)
(* piece is either plain text or a dotted quad "a.b.c.d", kept as the     *)
(* tuple of its four decimal numbers.  A protocol version is the sequence *)
(* of its "."-separated decimal numbers.                                  *)
(***************************************************************************)
EXTENDS Integers, Sequences, FiniteSets, TLC

VARIABLES
    cfg,        \* the flags and positional arguments, fixed after startup
    sessions,   \* the map sessions: session id -> session
    version,    \* the global version, overwritten by every input line
    status,     \* "running", "exit0" (os.Exit(0)) or "fatal" (log.Fatal, panic)
    mainPc,     \* the dispatcher: "config" (skipConfig), "init" (filterInit),
                \* "read", "sleep" or "emit"
    mainOut,    \* the responses the dispatcher itself still has to produce
    tasks,      \* the goroutines started by `go waitThenAction(...)`
    wbuf,       \* the line the writer goroutine has received and not yet printed
    output,     \* the lines printed on standard output, in order
    events      \* the input lines read so far, in order (history)

vars == <<cfg, sessions, version, status, mainPc, mainOut, tasks, wbuf, output, events>>

----------------------------------------------------------------------------
(* Bounds of the model *)

\* the dispatcher reads at most MaxLines input lines in the concurrent runs
MaxLines == 3

\* the dispatcher reads at most MaxLinesF input lines in the fair runs
MaxLinesF == 4

\* the dispatcher reads at most MaxLinesD input lines in the decision runs
MaxLinesD == 2

\* the dispatcher reads at most MaxLinesN input lines in the numeric runs
MaxLinesN == 2

\* the dispatcher reads at most MaxLinesM input lines in the message runs
MaxLinesM == 4

\* the process reads at most MaxLinesI input lines in the runs from startup
MaxLinesI == 4

----------------------------------------------------------------------------
(* Text *)

Txt(s) == [s |-> s, o |-> <<>>]

Quad(a, b, c, d) == [s |-> "", o |-> <<a, b, c, d>>]

\* a field without ":" holding plain text, e.g. a token
Field(s) == <<Txt(s)>>

\* the field "a.b.c.d:port"
V4Field(a, b, c, d) == <<Quad(a, b, c, d), Txt("33174")>>

NIL == [s |-> "<nil>", o |-> <<>>]

\* ParseIP without the range check of the numbers
ParseIPAnyNumber(piece) == IF Len(piece.o) = 4 THEN piece ELSE NIL

\* net.ParseIP on a string without ":": a dotted quad of four numbers in 0..255
ParseIP(piece) ==
    IF Len(piece.o) = 4 /\ \A i \in 1..4 : piece.o[i] \in 0..255
    THEN piece
    ELSE NIL

\* int8(x)
Int8(x) == ((x + 128) % 256) - 128

\* ParseInt8 without the clamp: the number as it is written
ParseIntWide(n) == n

\* strconv.ParseInt(s, 10, 8) of a decimal number n >= 0, the error dropped:
\* a value out of range yields the largest int8
ParseInt8(n) == IF n > 127 THEN 127 ELSE n

\* 2^k for k in 0..8
Pow2(k) == CASE k = 0 -> 1 [] k = 1 -> 2 [] k = 2 -> 4 [] k = 3 -> 8 [] k = 4 -> 16
             [] k = 5 -> 32 [] k = 6 -> 64 [] k = 7 -> 128 [] OTHER -> 256

\* the bits of a mask of `ones` leading ones that fall into octet i (1..4)
OctetBits(ones, i) ==
    IF ones >= 8 * i THEN 8
    ELSE IF ones <= 8 * (i - 1) THEN 0
    ELSE ones - 8 * (i - 1)

\* addr.Mask(net.CIDRMask(ones, 32)) for an IPv4 address; a mask longer than
\* 32 bits is nil, and so is the masked address
MaskAddr(addr, ones) ==
    IF ones > 32 THEN NIL
    ELSE [s |-> "", o |-> [i \in 1..4 |->
             addr.o[i] - (addr.o[i] % Pow2(8 - OctetBits(ones, i)))]]

\* allowlistMasks: the mask lengths of the allowlist entries
AllowlistMasks(c) == {e[2] : e \in c.allowlist}

\* the loop over allowlistMasks in linkConnect
Allowlisted(c, addr) ==
    \E ones \in AllowlistMasks(c) : <<MaskAddr(addr, ones), ones>> \in c.allowlist

----------------------------------------------------------------------------
(* The session store *)

\* &session{} after linkConnect's first assignments
NewSession == [score |-> -1, delay |-> 0, first_line |-> TRUE]

NoSessions == [x \in {} |-> NewSession]

\* an assignment that keeps the session that is there
PutIfAbsent(ss, sid, s) ==
    [x \in (DOMAIN ss) \cup {sid} |-> IF x \in DOMAIN ss THEN ss[x] ELSE s]

\* sessions[sessionId] = s
Put(ss, sid, s) == [x \in (DOMAIN ss) \cup {sid} |-> IF x = sid THEN s ELSE ss[x]]

\* a delete that deletes nothing
RemoveNothing(ss, sid) == ss

\* delete(sessions, sessionId): a no-op when the key is absent
Remove(ss, sid) == [x \in (DOMAIN ss) \ {sid} |-> ss[x]]

----------------------------------------------------------------------------
(* Handlers.  A handler returns what it did: whether it ended the process *)
(* (log.Fatal or a runtime panic), the session store it leaves, and the   *)
(* responses it asked for, in order.                                      *)

\* getSession: whether the session is there (else log.Fatalf)
HasSession(ss, sid) == sid \in DOMAIN ss

Fatal(ss) == [fatal |-> TRUE, sessions |-> ss, reqs |-> <<>>]

Ok(ss, reqs) == [fatal |-> FALSE, sessions |-> ss, reqs |-> reqs]

\* the text of a response: a verdict string, the score header or a body line
VerdictText(v) == [s |-> v, n |-> 0, body |-> <<>>]

HeaderText(score) == [s |-> "X-DNSBL-Score: ", n |-> score, body |-> <<>>]

LineText(rest) == [s |-> "", n |-> 0, body |-> rest]

DisconnectMsg == "disconnect|550 your IP reputation is too low for this MX"

\* the score without the early return for a last octet of 255
ConnectScoreNoSentinel(c, params, hits) ==
    LET addr == ParseIP(params[3][1])
    IN  IF addr = NIL THEN -1
        ELSE IF Allowlisted(c, addr) THEN 0
        ELSE IF c.testMode
             THEN Int8(ParseInt8(addr.o[4]))
             ELSE Int8(hits)

\* the score linkConnect leaves in the session; hits is the number of
\* blocklist domains whose lookup succeeds with a non-empty answer
ConnectScore(c, params, hits) ==
    LET addr == ParseIP(params[3][1])
    IN  IF addr = NIL THEN -1
        ELSE IF Allowlisted(c, addr) THEN 0
        ELSE IF c.testMode
             THEN IF addr.o[4] = 255 THEN -1 ELSE Int8(ParseInt8(addr.o[4]))
             ELSE Int8(hits)

\* linkConnect without sessions[sessionId] = s
linkConnectNoStore(c, ss, sid, params, hits) ==
    IF Len(params) # 4 THEN Fatal(ss) ELSE Ok(ss, <<>>)

linkConnect(c, ss, sid, params, hits) ==
    IF Len(params) # 4 THEN Fatal(ss)
    ELSE Ok(Put(ss, sid, [NewSession EXCEPT !.score = ConnectScore(c, params, hits)]), <<>>)

linkDisconnect(c, ss, sid, params) ==
    IF Len(params) # 0 THEN Fatal(ss)
    ELSE Ok(Remove(ss, sid), <<>>)

\* the delay computed whatever the score is
ConnectDelayAnyScore(c, score) ==
    IF c.slowFactor > 0
    THEN (c.slowFactor * score) \div c.domains
    ELSE 0

\* the delay filterConnect stores in the session
ConnectDelay(c, score) ==
    IF c.slowFactor > 0 /\ score > 0
    THEN (c.slowFactor * score) \div c.domains
    ELSE 0

\* BlockHit with an inclusive comparison
BlockHitInclusive(c, score, phase) ==
    /\ score # -1
    /\ Int8(c.blockAbove) >= 0
    /\ score >= Int8(c.blockAbove)
    /\ c.blockPhase = phase

\* the block condition of filterConnect and delayedAnswer
BlockHit(c, score, phase) ==
    /\ score # -1
    /\ Int8(c.blockAbove) >= 0
    /\ score > Int8(c.blockAbove)
    /\ c.blockPhase = phase

\* the junk condition with the threshold as it was given
JunkHitWide(c, score) ==
    /\ score # -1
    /\ c.junkAbove >= 0
    /\ score > c.junkAbove

\* the junk condition of filterConnect
JunkHit(c, score) ==
    /\ score # -1
    /\ Int8(c.junkAbove) >= 0
    /\ score > Int8(c.junkAbove)

\* waitThenAction called with no delay
AnswerAtOnce(ss, sid, params, verdict) ==
    [type |-> "filter-result", sid |-> sid, token |-> params[1],
     delay |-> 0, text |-> VerdictText(verdict), verdict |-> TRUE]

\* delayedJunk, delayedProceed, delayedDisconnect: the call of waitThenAction
\* they make, with the session's delay as it is now
Answer(ss, sid, params, verdict) ==
    [type |-> "filter-result", sid |-> sid, token |-> params[1],
     delay |-> ss[sid].delay, text |-> VerdictText(verdict), verdict |-> TRUE]

filterConnect(c, ss, sid, params) ==
    IF ~HasSession(ss, sid) THEN Fatal(ss)
    ELSE LET s   == ss[sid]
             ss2 == Put(ss, sid, [s EXCEPT !.delay = ConnectDelay(c, s.score)])
         IN  IF Len(params) = 0 THEN Fatal(ss2)
             ELSE IF BlockHit(c, s.score, "connect")
                  THEN Ok(ss2, <<Answer(ss2, sid, params, DisconnectMsg)>>)
             ELSE IF JunkHit(c, s.score)
                  THEN Ok(ss2, <<Answer(ss2, sid, params, "junk")>>)
             ELSE Ok(ss2, <<Answer(ss2, sid, params, "proceed")>>)

delayedAnswer(c, ss, phase, sid, params) ==
    IF ~HasSession(ss, sid) THEN Fatal(ss)
    ELSE IF Len(params) = 0 THEN Fatal(ss)
    ELSE IF BlockHit(c, ss[sid].score, phase)
         THEN Ok(ss, <<Answer(ss, sid, params, DisconnectMsg)>>)
    ELSE Ok(ss, <<Answer(ss, sid, params, "proceed")>>)

DataLine(sid, params, text) ==
    [type |-> "filter-dataline", sid |-> sid, token |-> params[1],
     delay |-> 0, text |-> text, verdict |-> FALSE]

\* dataline with the header before every line
datalineEveryLine(c, ss, sid, params) ==
    IF ~HasSession(ss, sid) THEN Fatal(ss)
    ELSE IF Len(params) = 0 THEN Fatal(ss)
    ELSE LET s    == ss[sid]
             ss2  == Put(ss, sid, [s EXCEPT !.first_line = FALSE])
             body == DataLine(sid, params, LineText(Tail(params)))
         IN  IF s.score # -1 /\ c.scoreHeader
             THEN Ok(ss2, <<DataLine(sid, params, HeaderText(s.score)), body>>)
             ELSE Ok(ss2, <<body>>)

dataline(c, ss, sid, params) ==
    IF ~HasSession(ss, sid) THEN Fatal(ss)
    ELSE IF Len(params) = 0 THEN Fatal(ss)
    ELSE LET s    == ss[sid]
             ss2  == Put(ss, sid, [s EXCEPT !.first_line = FALSE])
             body == DataLine(sid, params, LineText(Tail(params)))
         IN  IF s.first_line /\ s.score # -1 /\ c.scoreHeader
             THEN Ok(ss2, <<DataLine(sid, params, HeaderText(s.score)), body>>)
             ELSE Ok(ss2, <<body>>)

\* the keys of the map reporters
ReporterPhases == {"link-connect", "link-disconnect"}

\* the keys of the map filters that are bound to delayedAnswer
AnswerPhases == {"helo", "ehlo", "starttls", "auth", "mail-from", "rcpt-to",
                 "data", "commit", "quit"}

\* the keys of the map filters
FilterPhases == {"connect", "data-line"} \cup AnswerPhases

\* the phases validatePhase accepts for -blockPhase
BlockPhases == {"connect", "helo", "ehlo", "starttls", "auth", "mail-from",
                "rcpt-to", "quit"}

\* a dispatch on the phase alone, whatever the stream is
triggerAnyStream(c, ss, line, hits) ==
    CASE line.phase = "link-connect" ->
            linkConnect(c, ss, line.sid, line.params, hits)
      [] line.phase = "link-disconnect" ->
            linkDisconnect(c, ss, line.sid, line.params)
      [] line.phase = "connect" ->
            filterConnect(c, ss, line.sid, line.params)
      [] line.phase = "data-line" ->
            dataline(c, ss, line.sid, line.params)
      [] line.phase \in AnswerPhases ->
            delayedAnswer(c, ss, line.phase, line.sid, line.params)
      [] OTHER -> Fatal(ss)

\* trigger(reporters, atoms) and trigger(filters, atoms), from main's switch
trigger(c, ss, line, hits) ==
    CASE line.stream = "report" /\ line.phase = "link-connect" ->
            linkConnect(c, ss, line.sid, line.params, hits)
      [] line.stream = "report" /\ line.phase = "link-disconnect" ->
            linkDisconnect(c, ss, line.sid, line.params)
      [] line.stream = "filter" /\ line.phase = "connect" ->
            filterConnect(c, ss, line.sid, line.params)
      [] line.stream = "filter" /\ line.phase = "data-line" ->
            dataline(c, ss, line.sid, line.params)
      [] line.stream = "filter" /\ line.phase \in AnswerPhases ->
            delayedAnswer(c, ss, line.phase, line.sid, line.params)
      [] OTHER -> Fatal(ss)

----------------------------------------------------------------------------
(* Output *)

\* produceOutput's line: the field order follows the global version as it is
\* when the line is formatted.  Every version of the model has two numbers (a
\* version without "." would make tokens[1] panic).
Render(req, ver) ==
    IF ver[1] = 0 /\ ver[2] < 5
    THEN <<req.type, req.token, req.sid, req.text>>
    ELSE <<req.type, req.sid, req.token, req.text>>

\* produceOutput printing the line itself in every mode
UseChannelNever == FALSE

\* produceOutput: whether the line goes to outputChannel (else fmt.Println)
UseChannel == ~cfg.testMode

\* waitThenAction called without `go` in every mode
InBackgroundNever == FALSE

\* delayedJunk, delayedProceed, delayedDisconnect: whether waitThenAction is
\* started as a goroutine (else called by the dispatcher itself)
InBackground == ~cfg.testMode

NoLine == <<>>

\* a line on its way to standard output; ev and score are history: the number
\* of the input line that asked for it and the session's score at that time
Printed(line, q, by) == [line |-> line, ev |-> q.ev, score |-> q.score, by |-> by]

----------------------------------------------------------------------------
(* Inputs *)

Line(stream, ver, phase, sid, params) ==
    [stream |-> stream, version |-> ver, phase |-> phase, sid |-> sid, params |-> params]

\* report|<ver>|0|smtp-in|link-connect|<sid>|<rdns>|pass|<src>|1.1.1.1:25
LinkConnectLine(ver, sid, src) ==
    Line("report", ver, "link-connect", sid,
         <<Field(""), Field("pass"), src, V4Field(1, 1, 1, 1)>>)

\* report|<ver>|0|smtp-in|link-disconnect|<sid>
LinkDisconnectLine(ver, sid) == Line("report", ver, "link-disconnect", sid, <<>>)

\* filter|<ver>|0|smtp-in|<phase>|<sid>|<token>|<rest>
FilterLine(ver, phase, sid, token) ==
    Line("filter", ver, phase, sid, <<token, Field("x")>>)

\* a line with fewer than six fields, "<stream>|<ver>|0|smtp-in|<phase>": the
\* session id field is not there (a field that is there has a piece)
ShortLine(stream, ver, phase) == Line(stream, ver, phase, <<>>, <<>>)

\* len(atoms) < 6
TooShort(line) == line.sid = <<>>

\* a line of the configuration stage, "config|<rest>"
ConfigLine(rest) == Line("config", <<>>, rest, <<>>, <<>>)

\* the source fields that do not hold an IPv4 address: "[2001:db8::1]:33174",
\* "::1", "local", "1.2.3.256:33174"
OtherSources ==
    { <<Txt("[2001"), Txt("db8"), Txt(""), Txt("1]"), Txt("33174")>>,
      <<Txt(""), Txt(""), Txt("1")>>,
      <<Txt("local")>>,
      V4Field(1, 2, 3, 256) }

\* the concurrent runs: two sessions, two protocol versions, and a token of
\* its own for every input line (the n-th line carries the n-th token)
SidsC == {Field("s1"), Field("s2")}

TokenAt(n) == Field(<<"t1", "t2", "t3", "t4", "t5", "t6">>[n])

VersionsC == {<<0, 4>>, <<0, 5>>}

LinesC(n) ==
    UNION { {LinkConnectLine(v, sid, V4Field(1, 2, 3, 4)), LinkDisconnectLine(v, sid)}
            \cup {FilterLine(v, ph, sid, TokenAt(n)) : ph \in {"connect", "data", "data-line"}}
            : v \in VersionsC, sid \in SidsC }

\* the fair runs: one session, one protocol version
LinesF(n) ==
    {LinkConnectLine(<<0, 5>>, Field("s1"), V4Field(1, 2, 3, 4)),
     LinkDisconnectLine(<<0, 5>>, Field("s1"))}
    \cup {FilterLine(<<0, 5>>, ph, Field("s1"), TokenAt(n)) :
            ph \in {"connect", "data", "data-line"}}

CfgsC ==
    [blockAbove : {-1}, blockPhase : {"connect"}, junkAbove : {1}, slowFactor : {1000},
     scoreHeader : {TRUE}, testMode : BOOLEAN, domains : {1}, allowlist : {{}}]

\* the decision runs: one session, every phase, scores and thresholds at and
\* around the values where the decision changes (the last octet 128 gives the
\* score 127)
OctetsD == {0, 1, 2, 128, 255}

BlockAboveD == {-1, 0, 1, 127}

JunkAboveD == {-1, 0, 1}

LinesD ==
    {LinkConnectLine(<<0, 5>>, Field("s1"), V4Field(1, 2, 3, d)) : d \in OctetsD}
    \cup {LinkConnectLine(<<0, 5>>, Field("s1"), src) : src \in OtherSources}
    \cup {FilterLine(<<0, 5>>, ph, Field("s1"), Field("t1")) : ph \in FilterPhases}

\* a normal run with one domain knows the scores 0 and 1 only
CfgsD ==
    [blockAbove : BlockAboveD, blockPhase : BlockPhases, junkAbove : JunkAboveD,
     slowFactor : {3}, scoreHeader : {FALSE}, testMode : {TRUE}, domains : {1},
     allowlist : {{}}]
    \cup
    [blockAbove : {-1, 0}, blockPhase : BlockPhases, junkAbove : {-1, 0},
     slowFactor : {-1}, scoreHeader : {FALSE}, testMode : {FALSE}, domains : {1},
     allowlist : {{}}]

\* the numeric runs: one session, scores over the whole range of the last
\* octet, slow factors and numbers of domains that divide with and without
\* remainder, allowlists, and thresholds outside the range of int8
OctetsN == {0, 1, 2, 127, 128, 200, 254, 255}

\* the source field "[2001:db8::1]:33174"
V6Source == <<Txt("[2001"), Txt("db8"), Txt(""), Txt("1]"), Txt("33174")>>

LinesN ==
    {LinkConnectLine(<<0, 5>>, Field("s1"), V4Field(1, 2, 3, d)) : d \in OctetsN}
    \cup {LinkConnectLine(<<0, 5>>, Field("s1"), V4Field(9, 9, 9, 9)),
          LinkConnectLine(<<0, 5>>, Field("s1"), V6Source)}
    \cup {FilterLine(<<0, 5>>, ph, Field("s1"), Field("t1")) : ph \in {"connect", "helo"}}

\* a line of the allowlist file after the comment and the blanks are removed:
\* an address and the number after "/" (-1: no "/")
AllowLine(addr, ones) == [addr |-> addr, ones |-> ones]

\* the text of the IPv6 network 2001:db8::, which a mask of 32 or 64 bits
\* leaves as it is
V6Net == Txt("2001:db8::")

\* loadAllowlists, one line: "/32" is appended when there is no "/", and
\* net.ParseCIDR yields the network, whose text and mask length are kept
LoadLine(l) ==
    LET ones == IF l.ones = -1 THEN 32 ELSE l.ones
    IN  IF Len(l.addr.o) = 4 THEN <<MaskAddr(l.addr, ones), ones>> ELSE <<l.addr, ones>>

\* loadAllowlists: the map allowlist built from the lines of the file
loadAllowlists(file) == {LoadLine(l) : l \in file}

\* the files "1.2.3.77/24", "1.2.3.255" with "1.2.0.0/16", "2001:db8::/32",
\* "2001:db8::/64" with "9.9.9.0/24"
AllowFilesN ==
    { {AllowLine(Quad(1, 2, 3, 77), 24)},
      {AllowLine(Quad(1, 2, 3, 255), -1), AllowLine(Quad(1, 2, 0, 0), 16)},
      {AllowLine(V6Net, 32)},
      {AllowLine(V6Net, 64), AllowLine(Quad(9, 9, 9, 0), 24)} }

ThresholdsN == {-130, 1, 128, 255, 256, 257, 383}

CfgsN ==
    [blockAbove : {-1}, blockPhase : {"connect"}, junkAbove : {-1},
     slowFactor : {-1, 0, 1, 7}, scoreHeader : {FALSE}, testMode : BOOLEAN,
     domains : {1, 2, 3}, allowlist : {{}}]
    \cup
    [blockAbove : {0}, blockPhase : {"connect"}, junkAbove : {-1},
     slowFactor : {7}, scoreHeader : {FALSE}, testMode : BOOLEAN,
     domains : {2}, allowlist : {loadAllowlists(f) : f \in AllowFilesN}]
    \cup
    [blockAbove : ThresholdsN, blockPhase : {"connect", "helo"}, junkAbove : ThresholdsN,
     slowFactor : {-1}, scoreHeader : {FALSE}, testMode : {TRUE},
     domains : {1}, allowlist : {{}}]

\* the message runs: one session that is connected, and connected again, from
\* an IPv4 and from an IPv6 address, and sends the events of mail transactions
LinesM(n) ==
    {LinkConnectLine(<<0, 5>>, Field("s1"), V4Field(1, 2, 3, 4)),
     LinkConnectLine(<<0, 5>>, Field("s1"), V6Source)}
    \cup {FilterLine(<<0, 5>>, ph, Field("s1"), TokenAt(n)) :
            ph \in {"connect", "mail-from", "data-line"}}

CfgsM ==
    [blockAbove : {-1}, blockPhase : {"connect"}, junkAbove : {-1}, slowFactor : {7},
     scoreHeader : BOOLEAN, testMode : BOOLEAN, domains : {2}, allowlist : {{}}]

\* the runs from startup.  Before the handshake: the sentinel, another
\* configuration line, and a line that looks like an event.
LinesBeforeReady ==
    {ConfigLine("ready"), ConfigLine("smtp-session-timeout|300"),
     LinkConnectLine(<<0, 5>>, Field("s1"), V4Field(1, 2, 3, 4))}

\* After it: events of one session, and the lines main and trigger refuse: a
\* line of five fields, the sentinel again, an unknown stream, a filter phase
\* on the report stream, a reporter phase on the filter stream and a phase
\* that is in neither table
LinesI(n) ==
    {LinkConnectLine(<<0, 5>>, Field("s1"), V4Field(1, 2, 3, 4)),
     FilterLine(<<0, 5>>, "connect", Field("s1"), TokenAt(n)),
     ShortLine("filter", <<0, 5>>, "connect"),
     ConfigLine("ready"),
     Line("bogus", <<0, 4>>, "connect", Field("s1"), <<TokenAt(n), Field("x")>>),
     Line("report", <<0, 5>>, "connect", Field("s1"), <<TokenAt(n), Field("x")>>),
     Line("filter", <<0, 5>>, "link-disconnect", Field("s1"), <<>>),
     Line("filter", <<0, 5>>, "noop", Field("s1"), <<TokenAt(n), Field("x")>>)}

----------------------------------------------------------------------------
(* The program *)

InitWith(cfgs) ==
    /\ cfg \in cfgs
    /\ sessions = NoSessions
    /\ version = <<0, 0>>
    /\ status = "running"
    /\ mainPc = "read"
    /\ mainOut = <<>>
    /\ tasks = {}
    /\ wbuf = <<>>
    /\ output = <<>>
    /\ events = <<>>

Init == InitWith(CfgsC)

InitD == InitWith(CfgsD)

InitN == InitWith(CfgsN)

InitM == InitWith(CfgsM)

\* the process as main finds it after loadAllowlists: nothing read yet
InitI ==
    /\ cfg \in CfgsC
    /\ sessions = NoSessions
    /\ version = <<0, 0>>
    /\ status = "running"
    /\ mainPc = "config"
    /\ mainOut = <<>>
    /\ tasks = {}
    /\ wbuf = <<>>
    /\ output = <<>>
    /\ events = <<>>

\* skipConfig leaving at whatever line it reads
SkipLineAny(line) ==
    /\ status = "running"
    /\ mainPc = "config"
    /\ events' = Append(events, line)
    /\ mainPc' = "init"
    /\ UNCHANGED <<cfg, sessions, version, status, mainOut, tasks, wbuf, output>>

\* skipConfig reads a line: it returns when the line is "config|ready" and
\* drops the line otherwise
SkipLine(line) ==
    /\ status = "running"
    /\ mainPc = "config"
    /\ events' = Append(events, line)
    /\ mainPc' = IF line = ConfigLine("ready") THEN "init" ELSE "config"
    /\ UNCHANGED <<cfg, sessions, version, status, mainOut, tasks, wbuf, output>>

\* skipConfig: scanner.Scan returns false, os.Exit(0)
SkipEof ==
    /\ status = "running"
    /\ mainPc = "config"
    /\ status' = "exit0"
    /\ UNCHANGED <<cfg, sessions, version, mainPc, mainOut, tasks, wbuf, output, events>>

\* what filterInit has printed so far for one of the tables: how often the
\* register line of each key
NoKeys == [k \in {} |-> 0]

AddKey(b, k) ==
    [x \in (DOMAIN b) \cup {k} |->
        IF x = k THEN (IF k \in DOMAIN b THEN b[k] + 1 ELSE 1) ELSE b[x]]

\* the register lines of the two loops of filterInit.  The iteration order of
\* a map is not fixed, so the lines "register|report|smtp-in|<k>" come in any
\* order, and after them the lines "register|filter|smtp-in|<k>": the block
\* is kept as one entry of the output that counts the lines of each key.
Registration(rep, fil) ==
    [line |-> <<"register", rep, fil>>, ev |-> 0, score |-> -1, by |-> "main"]

\* the keys of reporters and of filters that have their register line
Registered(i) == IF output = <<>> THEN NoKeys ELSE output[1].line[i]

\* filterInit, the loop over reporters: every key once
RegisterReporter(k) ==
    /\ status = "running"
    /\ mainPc = "init"
    /\ k \in ReporterPhases \ DOMAIN Registered(2)
    /\ output' = <<Registration(AddKey(Registered(2), k), NoKeys)>>
    /\ UNCHANGED <<cfg, sessions, version, status, mainPc, mainOut, tasks, wbuf, events>>

\* filterInit, the loop over filters, after the loop over reporters
RegisterFilter(k) ==
    /\ status = "running"
    /\ mainPc = "init"
    /\ DOMAIN Registered(2) = ReporterPhases
    /\ k \in FilterPhases \ DOMAIN Registered(3)
    /\ output' = <<Registration(Registered(2), AddKey(Registered(3), k))>>
    /\ UNCHANGED <<cfg, sessions, version, status, mainPc, mainOut, tasks, wbuf, events>>

\* filterInit, after both loops: "register|ready"; main goes on to its loop
RegisterReady ==
    /\ status = "running"
    /\ mainPc = "init"
    /\ DOMAIN Registered(2) = ReporterPhases
    /\ DOMAIN Registered(3) = FilterPhases
    /\ output' = Append(output,
                        [line |-> <<"register", "ready">>, ev |-> 0, score |-> -1,
                         by |-> "main"])
    /\ mainPc' = "read"
    /\ UNCHANGED <<cfg, sessions, version, status, mainOut, tasks, wbuf, events>>

\* where the dispatcher stands with the responses it has to produce itself
MainNext(q) ==
    IF q = <<>> THEN "read"
    ELSE IF q[1].verdict /\ q[1].delay > 0 THEN "sleep" ELSE "emit"

\* one turn of main's loop: scanner.Scan, the split, the check of the number
\* of fields, version = atoms[1], the handler.  A response is handed to a new
\* goroutine or left to the dispatcher.
ReadLine(line, hits) ==
    /\ status = "running"
    /\ mainPc = "read"
    /\ LET r    == IF TooShort(line) THEN Fatal(sessions)
                   ELSE trigger(cfg, sessions, line, hits)
           ev   == Len(events) + 1
           reqs == [i \in 1..Len(r.reqs) |->
                       r.reqs[i] @@ [ev |-> ev, score |-> r.sessions[line.sid].score]]
           bg   == {reqs[i] : i \in {j \in 1..Len(reqs) : reqs[j].verdict /\ InBackground}}
           fg   == SelectSeq(reqs, LAMBDA q : ~(q.verdict /\ InBackground))
       IN  /\ events' = Append(events, line)
           /\ version' = IF TooShort(line) THEN version ELSE line.version
           /\ sessions' = r.sessions
           /\ status' = IF r.fatal THEN "fatal" ELSE "running"
           /\ tasks' = tasks \cup {q @@ [pc |-> "wait", out |-> NoLine] : q \in bg}
           /\ mainOut' = fg
           /\ mainPc' = MainNext(fg)
    /\ UNCHANGED <<cfg, wbuf, output>>

\* scanner.Scan returns false: os.Exit(0), whatever the goroutines are doing
Eof ==
    /\ status = "running"
    /\ mainPc = "read"
    /\ status' = "exit0"
    /\ UNCHANGED <<cfg, sessions, version, mainPc, mainOut, tasks, wbuf, output, events>>

\* waitThenAction called by the dispatcher: time.Sleep returns
MainWake ==
    /\ status = "running"
    /\ mainPc = "sleep"
    /\ mainPc' = "emit"
    /\ UNCHANGED <<cfg, sessions, version, status, mainOut, tasks, wbuf, output, events>>

\* produceOutput called by the dispatcher (from waitThenAction or dataline)
MainEmit ==
    /\ status = "running"
    /\ mainPc = "emit"
    /\ LET q == Head(mainOut)
           l == Printed(Render(q, version), q, "main")
       IN  IF UseChannel
           THEN /\ wbuf = <<>>
                /\ wbuf' = <<l>>
                /\ output' = output
           ELSE /\ output' = Append(output, l)
                /\ wbuf' = wbuf
    /\ mainOut' = Tail(mainOut)
    /\ mainPc' = MainNext(Tail(mainOut))
    /\ UNCHANGED <<cfg, sessions, version, status, tasks, events>>

\* a goroutine running waitThenAction: the sleep, if any, is over and
\* produceOutput formats the line, reading the global version.  The read is
\* not synchronised with the dispatcher's write: it yields the version before
\* or after it, which are the two orders of this step and ReadLine.
TaskFormat(t) ==
    /\ status = "running"
    /\ t \in tasks
    /\ t.pc = "wait"
    /\ tasks' = (tasks \ {t}) \cup {[t EXCEPT !.pc = "send", !.out = Render(t, version)]}
    /\ UNCHANGED <<cfg, sessions, version, status, mainPc, mainOut, wbuf, output, events>>

\* the goroutine's produceOutput hands its line over and the goroutine ends
TaskEmit(t) ==
    /\ status = "running"
    /\ t \in tasks
    /\ t.pc = "send"
    /\ LET l == Printed(t.out, t, "task")
       IN  IF UseChannel
           THEN /\ wbuf = <<>>
                /\ wbuf' = <<l>>
                /\ output' = output
           ELSE /\ output' = Append(output, l)
                /\ wbuf' = wbuf
    /\ tasks' = tasks \ {t}
    /\ UNCHANGED <<cfg, sessions, version, status, mainPc, mainOut, events>>

\* a writer that drops the line it received
WriterPrintDrop ==
    /\ status = "running"
    /\ wbuf # <<>>
    /\ wbuf' = <<>>
    /\ UNCHANGED <<cfg, sessions, version, status, mainPc, mainOut, tasks, output, events>>

\* the writer goroutine: fmt.Println of the line it received
WriterPrint ==
    /\ status = "running"
    /\ wbuf # <<>>
    /\ output' = Append(output, [wbuf[1] EXCEPT !.by = "writer"])
    /\ wbuf' = <<>>
    /\ UNCHANGED <<cfg, sessions, version, status, mainPc, mainOut, tasks, events>>

Step ==
    \/ Eof
    \/ MainWake
    \/ MainEmit
    \/ \E t \in tasks : TaskFormat(t)
    \/ \E t \in tasks : TaskEmit(t)
    \/ WriterPrint

\* the number of blocklist domains that list the address: asked for only by
\* linkConnect in a normal run
Hits(line) ==
    IF line.phase = "link-connect" /\ ~cfg.testMode THEN 0..cfg.domains ELSE {0}

Next ==
    \/ \E line \in LinesC(Len(events) + 1) : \E hits \in Hits(line) :
            Len(events) < MaxLines /\ ReadLine(line, hits)
    \/ Step

NextD ==
    \/ \E line \in LinesD : \E hits \in Hits(line) :
            Len(events) < MaxLinesD /\ ReadLine(line, hits)
    \/ Step

NextN ==
    \/ \E line \in LinesN : \E hits \in Hits(line) :
            Len(events) < MaxLinesN /\ ReadLine(line, hits)
    \/ Step

NextM ==
    \/ \E line \in LinesM(Len(events) + 1) : \E hits \in Hits(line) :
            Len(events) < MaxLinesM /\ ReadLine(line, hits)
    \/ Step

NextI ==
    \/ \E line \in LinesBeforeReady : Len(events) < MaxLinesI /\ SkipLine(line)
    \/ SkipEof
    \/ \E k \in ReporterPhases : RegisterReporter(k)
    \/ \E k \in FilterPhases : RegisterFilter(k)
    \/ RegisterReady
    \/ \E line \in LinesI(Len(events) + 1) : \E hits \in Hits(line) :
            Len(events) < MaxLinesI /\ ReadLine(line, hits)
    \/ Step

Spec == Init /\ [][Next]_vars

SpecD == InitD /\ [][NextD]_vars

SpecN == InitN /\ [][NextN]_vars

SpecM == InitM /\ [][NextM]_vars

SpecI == InitI /\ [][NextI]_vars

\* a sleep ends, a runnable goroutine runs, a channel operation that can
\* complete does, and the writer prints: the Go scheduler starves none of them
Fairness ==
    /\ WF_vars(MainWake)
    /\ WF_vars(MainEmit)
    /\ WF_vars(\E t \in tasks : TaskFormat(t))
    /\ WF_vars(\E t \in tasks : TaskEmit(t))
    /\ WF_vars(WriterPrint)

NextF ==
    \/ \E line \in LinesF(Len(events) + 1) : \E hits \in Hits(line) :
            Len(events) < MaxLinesF /\ ReadLine(line, hits)
    \/ Step

FairSpec == Init /\ [][NextF]_vars /\ Fairness

----------------------------------------------------------------------------
(* What the properties speak of *)

\* every filter-result response there is, pending or printed: its verdict, the
\* input line that asked for it and the session's score at that time
Answers ==
    {[v |-> t.text.s, ev |-> t.ev, score |-> t.score] : t \in {x \in tasks : x.verdict}}
    \cup {[v |-> mainOut[i].text.s, ev |-> mainOut[i].ev, score |-> mainOut[i].score] :
            i \in {j \in 1..Len(mainOut) : mainOut[j].verdict}}
    \cup {[v |-> wbuf[i].line[4].s, ev |-> wbuf[i].ev, score |-> wbuf[i].score] :
            i \in {j \in 1..Len(wbuf) : wbuf[j].line[1] = "filter-result"}}
    \cup {[v |-> output[i].line[4].s, ev |-> output[i].ev, score |-> output[i].score] :
            i \in {j \in 1..Len(output) : output[j].line[1] = "filter-result"}}

\* the dispatcher and every goroutine have nothing left to do
Quiet == mainPc = "read" /\ tasks = {} /\ wbuf = <<>>

\* the last link-connect line of session sid among the first n input lines
\* (0: none)
LastConnect(n, sid) ==
    LET C == {i \in 1..n : events[i].stream = "report" /\ events[i].phase = "link-connect"
                            /\ events[i].sid = sid}
    IN  IF C = {} THEN 0 ELSE CHOOSE i \in C : \A j \in C : j <= i

IsConnect(line, sid) ==
    line.stream = "report" /\ line.phase = "link-connect" /\ line.sid = sid

IsDisconnect(line, sid) ==
    line.stream = "report" /\ line.phase = "link-disconnect" /\ line.sid = sid

\* session sid is connected when the n-th input line is read: a link-connect
\* line for it came before, and no link-disconnect line since
LiveBefore(n, sid) ==
    \E i \in 1..(n - 1) :
        /\ IsConnect(events[i], sid)
        /\ \A j \in (i + 1)..(n - 1) : ~IsDisconnect(events[j], sid)

\* the responses asked for by the n-th input line: pending ...
PendingFor(n) ==
    Cardinality({t \in tasks : t.ev = n})
    + Cardinality({i \in 1..Len(mainOut) : mainOut[i].ev = n})
    + Cardinality({i \in 1..Len(wbuf) : wbuf[i].ev = n})

\* ... and printed
WrittenFor(n) == Cardinality({i \in 1..Len(output) : output[i].ev = n})

\* the input lines that are filter phase events other than data-line, for a
\* session that is there
VerdictEvents ==
    {n \in 1..Len(events) :
        /\ events[n].stream = "filter"
        /\ events[n].phase \in FilterPhases \ {"data-line"}
        /\ LiveBefore(n, events[n].sid)}

----------------------------------------------------------------------------
(* C1: for a session with a known score (0..127), the verdict of a filter  *)
(* phase event is the disconnect message iff blockAbove >= 0, score >      *)
(* blockAbove and the phase is the block phase; otherwise junk iff the     *)
(* phase is connect, junkAbove >= 0 and score > junkAbove; otherwise       *)
(* proceed.  Checked for every response, pending or printed.               *)

ExpectedVerdict(c, score, phase) ==
    IF c.blockAbove >= 0 /\ score > c.blockAbove /\ phase = c.blockPhase
    THEN "disconnect|550 your IP reputation is too low for this MX"
    ELSE IF phase = "connect" /\ c.junkAbove >= 0 /\ score > c.junkAbove
         THEN "junk"
         ELSE "proceed"

C1_Verdict ==
    \A a \in Answers :
        a.score \in 0..127 => a.v = ExpectedVerdict(cfg, a.score, events[a.ev].phase)

\* junk was printed for a connect event of a session whose score is above the
\* block threshold, the block phase being another one
C1_Witness ==
    \E i \in 1..Len(output) :
        /\ output[i].line[4].s = "junk"
        /\ cfg.blockAbove >= 0
        /\ output[i].score > cfg.blockAbove
        /\ cfg.blockPhase # "connect"

----------------------------------------------------------------------------
(* C2: a session whose connecting address is IPv6-formatted or unparsable *)
(* keeps the unknown score -1 after link-connect, and every verdict for   *)
(* one of its filter phase events is proceed, whatever the thresholds and *)
(* the block phase are.                                                   *)

C2_Unscored ==
    /\ \A sid \in DOMAIN sessions :
          LET i == LastConnect(Len(events), sid)
          IN  (i > 0 /\ events[i].params[3] \in OtherSources) => sessions[sid].score = -1
    /\ \A a \in Answers :
          LET i == LastConnect(a.ev, events[a.ev].sid)
          IN  (i > 0 /\ events[i].params[3] \in OtherSources) =>
                  (a.score = -1 /\ a.v = "proceed")

\* proceed was printed at the block phase for a session connected from
\* "[2001:db8::1]:33174", every known score being above the block threshold
C2_Witness ==
    \E i \in 1..Len(output) :
        /\ output[i].line[4].s = "proceed"
        /\ cfg.blockAbove = 0 /\ cfg.junkAbove = 0
        /\ events[output[i].ev].phase = cfg.blockPhase
        /\ events[1].phase = "link-connect"
        /\ events[1].params[3][1] = Txt("[2001")

----------------------------------------------------------------------------
(* C3: deterministic mode, junkAbove = 1, block disabled, one resolver     *)
(* domain, empty allowlist, peer address a.b.c.d: link-connect followed by *)
(* a filter connect event at version 0.5 produces exactly one line,        *)
(* filter-result|ID|TOKEN|junk or filter-result|ID|TOKEN|proceed.          *)

\* the run of the claim is over: both lines read and answered
C3_Run ==
    /\ cfg.testMode /\ cfg.junkAbove = 1 /\ cfg.blockAbove = -1
    /\ cfg.domains = 1 /\ cfg.allowlist = {}
    /\ Len(events) = 2
    /\ IsConnect(events[1], Field("s1"))
    /\ events[1].params[3] \notin OtherSources
    /\ events[2] = FilterLine(<<0, 5>>, "connect", Field("s1"), Field("t1"))
    /\ Quiet

C3_LastOctet == events[1].params[3][1].o[4]

C3_Line(verdict) ==
    <<"filter-result", Field("s1"), Field("t1"), [s |-> verdict, n |-> 0, body |-> <<>>]>>

\* the claim as stated: junk iff the last octet is > 1
C3_Original ==
    C3_Run =>
        /\ Len(output) = 1
        /\ output[1].line = C3_Line(IF C3_LastOctet > 1 THEN "junk" ELSE "proceed")

\* the claim as amended: junk iff the last octet is > 1 and is not 255
C3_Amended ==
    C3_Run =>
        /\ Len(output) = 1
        /\ output[1].line =
              C3_Line(IF C3_LastOctet > 1 /\ C3_LastOctet # 255 THEN "junk" ELSE "proceed")

\* junk for 1.2.3.128
C3_Witness ==
    /\ C3_Run
    /\ C3_LastOctet = 128
    /\ output[1].line = C3_Line("junk")

----------------------------------------------------------------------------
(* C4: a session id is in the session store iff a link-connect line for it *)
(* has been processed and no link-disconnect line for it since; this holds *)
(* in every state, so neither a filter phase event nor a response          *)
(* goroutine adds or removes an entry.                                     *)

C4_Store ==
    \A sid \in SidsC : sid \in DOMAIN sessions <=> LiveBefore(Len(events) + 1, sid)

\* two sessions were connected and the first one disconnected
C4_Witness ==
    /\ Len(events) = 3
    /\ IsConnect(events[1], Field("s1"))
    /\ IsConnect(events[2], Field("s2"))
    /\ IsDisconnect(events[3], Field("s1"))
    /\ DOMAIN sessions = {Field("s2")}

----------------------------------------------------------------------------
(* C5: after a link-disconnect for session X, a later event that refers    *)
(* to X ends the process; an event for a session that is not in the store  *)
(* is fatal and gets no response.                                          *)

----------------------------------------------------------------------------
(* C6: in normal mode the responses to two filter events of one session    *)
(* are printed in the order in which the dispatcher read the events.       *)

C6_SessionOrder ==
    ~cfg.testMode =>
        \A i, j \in 1..Len(output) :
            (i < j /\ events[output[i].ev].sid = events[output[j].ev].sid) =>
                output[i].ev <= output[j].ev

----------------------------------------------------------------------------
(* C7: in normal mode every filter phase event other than data-line, for   *)
(* a session that is there, gets exactly one response, with the session id *)
(* and the token of the event; it is never dropped nor duplicated, also    *)
(* when the session is disconnected meanwhile, and it is printed in the    *)
(* end.                                                                    *)

\* the session id and the token of the n-th input line, in a response
C7_Echoes(n) ==
    /\ \A t \in tasks : t.ev = n =>
          (t.sid = events[n].sid /\ t.token = events[n].params[1])
    /\ \A i \in 1..Len(wbuf) : wbuf[i].ev = n =>
          {wbuf[i].line[2], wbuf[i].line[3]} = {events[n].sid, events[n].params[1]}
    /\ \A i \in 1..Len(output) : output[i].ev = n =>
          {output[i].line[2], output[i].line[3]} = {events[n].sid, events[n].params[1]}

\* exactly one response, pending or printed
C7_ExactlyOne ==
    ~cfg.testMode =>
        \A n \in VerdictEvents : PendingFor(n) + WrittenFor(n) = 1 /\ C7_Echoes(n)

\* the claim as stated, at the end of the input: the response has been printed
C7_Original ==
    (~cfg.testMode /\ status = "exit0") => \A n \in VerdictEvents : WrittenFor(n) = 1

\* the claim as amended: exactly one response, and it is printed unless the
\* process ends first
C7_Amended ==
    /\ []C7_ExactlyOne
    /\ \A n \in 1..MaxLinesF :
          (~cfg.testMode /\ n \in VerdictEvents) ~> (WrittenFor(n) = 1 \/ status # "running")

\* the delayed response of a session was printed, the session being
\* disconnected by the next line
C7_Witness ==
    /\ ~cfg.testMode
    /\ status = "running"
    /\ Len(events) = 3
    /\ 2 \in VerdictEvents
    /\ IsDisconnect(events[3], events[2].sid)
    /\ Len(output) = 1
    /\ output[1].ev = 2
    /\ output[1].score > 0

----------------------------------------------------------------------------
(* C8: in normal mode every response line is printed by the writer         *)
(* goroutine, which holds one line at a time: the goroutines and the       *)
(* dispatcher never print, so lines are never mixed.                       *)

C8_SingleWriter ==
    ~cfg.testMode =>
        /\ \A i \in 1..Len(output) : output[i].by = "writer"
        /\ Len(wbuf) <= 1

\* the writer holds the response to one event while the goroutine of
\* another event has its line ready and waits to hand it over
C8_Witness ==
    /\ ~cfg.testMode
    /\ wbuf # <<>>
    /\ \E t \in tasks : t.pc = "send" /\ t.ev # wbuf[1].ev

----------------------------------------------------------------------------
(* C9: in normal mode a response with a positive delay never keeps the     *)
(* dispatcher from reading and handling the next input line: the           *)
(* dispatcher never sleeps, never waits for a verdict to be printed, and   *)
(* while such a response waits it is reading, or producing the data-line   *)
(* response of a later line.                                               *)

C9_NotBlocked ==
    (~cfg.testMode /\ status = "running") =>
        /\ mainPc # "sleep"
        /\ \A i \in 1..Len(mainOut) : ~mainOut[i].verdict
        /\ \A n \in VerdictEvents :
              PendingFor(n) + WrittenFor(n) = 1
              /\ (mainPc = "read" \/ Head(mainOut).ev > n)

\* the response to the second line still waits out its delay, and the
\* third line has been read and handled
C9_Witness ==
    /\ ~cfg.testMode
    /\ status = "running"
    /\ mainPc = "read"
    /\ Len(events) = 3
    /\ \E t \in tasks : t.ev = 2 /\ t.delay > 0 /\ t.pc = "wait"
    /\ events[3].stream = "filter"

----------------------------------------------------------------------------
(* C10: the field order of a response line follows the protocol version of *)
(* the event that asked for it: token, session id below 0.5; session id,   *)
(* token from 0.5 on.                                                      *)

C10_FieldOrder ==
    \A i \in 1..Len(output) :
        LET e == events[output[i].ev]
        IN  IF e.version[1] = 0 /\ e.version[2] < 5
            THEN output[i].line[2] = e.params[1] /\ output[i].line[3] = e.sid
            ELSE output[i].line[2] = e.sid /\ output[i].line[3] = e.params[1]

----------------------------------------------------------------------------
(* C11: after the filter connect event of a session, the delay of the      *)
(* session is 0 if slowFactor <= 0 or the score is <= 0 (unknown and       *)
(* allowlisted scores included), and floor(slowFactor * score / domains)   *)
(* otherwise; it is never negative.                                        *)

\* a filter connect line of session sid was read after its last link-connect
ConnectSeen(sid) ==
    \E n \in (LastConnect(Len(events), sid) + 1)..Len(events) :
        /\ events[n].stream = "filter" /\ events[n].phase = "connect"
        /\ events[n].sid = sid

\* the largest q with q * d <= n, for n >= 0 and d > 0
FloorDiv(n, d) == CHOOSE q \in 0..n : q * d <= n /\ (q + 1) * d > n

ExpectedDelay(c, score) ==
    IF c.slowFactor <= 0 \/ score <= 0 THEN 0 ELSE FloorDiv(c.slowFactor * score, c.domains)

C11_Delay ==
    \A sid \in DOMAIN sessions :
        /\ sessions[sid].delay >= 0
        /\ ConnectSeen(sid) => sessions[sid].delay = ExpectedDelay(cfg, sessions[sid].score)

\* slow factor 7, score 127, 2 domains: 444 ms, the half dropped
C11_Witness ==
    /\ cfg.slowFactor = 7 /\ cfg.domains = 2
    /\ Field("s1") \in DOMAIN sessions
    /\ sessions[Field("s1")].score = 127
    /\ ConnectSeen(Field("s1"))
    /\ sessions[Field("s1")].delay = 444

----------------------------------------------------------------------------
(* C12: with slowFactor > 0, every answer to a filter event of a session   *)
(* with score > 0 is subject to the delay floor(slowFactor * score /       *)
(* domains), at every filter phase, data-line included, and in whatever    *)
(* order the filter events of the session arrive.                          *)

\* a filter connect line of the session of the n-th input line was read after
\* the session's last link-connect and not later than the n-th line
ConnectSeenBy(n) ==
    \E k \in (LastConnect(n, events[n].sid) + 1)..n :
        /\ events[k].stream = "filter" /\ events[k].phase = "connect"
        /\ events[k].sid = events[n].sid

\* the responses that wait for the dispatcher or in a goroutine
Waiting ==
    {[ev |-> t.ev, score |-> t.score, delay |-> t.delay, verdict |-> t.verdict] : t \in tasks}
    \cup {[ev |-> mainOut[i].ev, score |-> mainOut[i].score, delay |-> mainOut[i].delay,
           verdict |-> mainOut[i].verdict] : i \in 1..Len(mainOut)}

----------------------------------------------------------------------------
(* C13: for every connecting address, of either family, that lies inside   *)
(* a prefix of the allowlist, the score after link-connect is 0, whatever  *)
(* the resolver answers and whatever the last octet is (255 included).     *)

\* the address of a source field lies inside the allowlist entry e: an IPv4
\* address agrees with the network on the leading bits of every octet;
\* 2001:db8::1 lies inside 2001:db8::/32 and 2001:db8::/64
C13_Inside(src, e) ==
    \/ /\ ParseIP(src[1]) # NIL
       /\ Len(e[1].o) = 4
       /\ e[2] <= 32
       /\ \A i \in 1..4 :
             src[1].o[i] \div Pow2(8 - OctetBits(e[2], i)) =
                 e[1].o[i] \div Pow2(8 - OctetBits(e[2], i))
    \/ src = V6Source /\ e[1] = V6Net

C13_Allowlisted ==
    \A sid \in DOMAIN sessions :
        LET src == events[LastConnect(Len(events), sid)].params[3]
        IN  (\E e \in cfg.allowlist : C13_Inside(src, e)) => sessions[sid].score = 0

----------------------------------------------------------------------------
(* C14: in deterministic mode, for every IPv4 address a.b.c.d that is not  *)
(* allowlisted, the score after link-connect is d for d in 0..254 and      *)
(* unknown (-1) for d = 255; the stored score lies in -1..127.             *)

\* the sessions of the claim: deterministic mode, the last link-connect came
\* from an IPv4 address outside every allowlist entry
C14_Sessions ==
    {sid \in DOMAIN sessions :
        LET src == events[LastConnect(Len(events), sid)].params[3]
        IN  /\ cfg.testMode
            /\ ParseIP(src[1]) # NIL
            /\ ~\E e \in cfg.allowlist : C13_Inside(src, e)}

C14_LastOctet(sid) == events[LastConnect(Len(events), sid)].params[3][1].o[4]

\* the claim as stated
C14_Original ==
    \A sid \in C14_Sessions :
        /\ sessions[sid].score = IF C14_LastOctet(sid) = 255 THEN -1 ELSE C14_LastOctet(sid)
        /\ sessions[sid].score \in -1..127

\* the claim as amended: the octets 128..254 give the score 127
C14_Amended ==
    \A sid \in C14_Sessions :
        /\ sessions[sid].score =
              IF C14_LastOctet(sid) = 255 THEN -1
              ELSE IF C14_LastOctet(sid) > 127 THEN 127
              ELSE C14_LastOctet(sid)
        /\ sessions[sid].score \in -1..127

\* the session was connected from 1.2.3.255 and then from 1.2.3.254: its
\* score is 127
C14_Witness ==
    /\ Field("s1") \in C14_Sessions
    /\ C14_LastOctet(Field("s1")) = 254
    /\ sessions[Field("s1")].score = 127
    /\ Len(events) = 2
    /\ events[1].params[3] = V4Field(1, 2, 3, 255)

----------------------------------------------------------------------------
(* C15: with the score header enabled and a known score, the first         *)
(* data-line event of a session gets exactly two filter-dataline lines,    *)
(* the header X-DNSBL-Score: <score> and then the content of the line,     *)
(* both with the token of the event; every later data-line event of the    *)
(* session gets exactly one line, the content unchanged.  With an unknown  *)
(* score or without the option every data-line event gets exactly one.     *)

\* the data-line events of a session that is there
DataEvents ==
    {n \in 1..Len(events) :
        /\ events[n].stream = "filter" /\ events[n].phase = "data-line"
        /\ LiveBefore(n, events[n].sid)}

\* no data-line event of the session since its last link-connect
FirstData(n) ==
    \A k \in (LastConnect(n, events[n].sid) + 1)..(n - 1) :
        ~(events[k].stream = "filter" /\ events[k].phase = "data-line"
          /\ events[k].sid = events[n].sid)

\* the address of the session's last link-connect gives a score
KnownScore(n) ==
    LET src == events[LastConnect(n, events[n].sid)].params[3]
    IN  ParseIP(src[1]) # NIL /\ ~(cfg.testMode /\ src[1].o[4] = 255)

\* the responses to the n-th input line in the order in which they are, or
\* will be, printed (protocol version 0.5)
ResponsesFor(n) ==
    LET P(x) == [type |-> x.line[1], sid |-> x.line[2], token |-> x.line[3],
                 text |-> x.line[4], score |-> x.score]
        Q(x) == [type |-> x.type, sid |-> x.sid, token |-> x.token,
                 text |-> x.text, score |-> x.score]
        out  == SelectSeq(output, LAMBDA x : x.ev = n)
        buf  == SelectSeq(wbuf, LAMBDA x : x.ev = n)
        mo   == SelectSeq(mainOut, LAMBDA x : x.ev = n)
    IN  [i \in 1..Len(out) |-> P(out[i])] \o [i \in 1..Len(buf) |-> P(buf[i])]
        \o [i \in 1..Len(mo) |-> Q(mo[i])]

HeaderExpected(n) == cfg.scoreHeader /\ KnownScore(n) /\ FirstData(n)

C15_Shape(n, withHeader) ==
    LET R == ResponsesFor(n)
    IN  /\ Len(R) = IF withHeader THEN 2 ELSE 1
        /\ \A i \in 1..Len(R) :
              /\ R[i].type = "filter-dataline"
              /\ R[i].sid = events[n].sid
              /\ R[i].token = events[n].params[1]
        /\ R[Len(R)].text = [s |-> "", n |-> 0, body |-> Tail(events[n].params)]
        /\ withHeader =>
              /\ R[1].text = [s |-> "X-DNSBL-Score: ", n |-> R[1].score, body |-> <<>>]
              /\ R[1].score \in 0..127

C15_Header == \A n \in DataEvents : C15_Shape(n, HeaderExpected(n))

\* header and content for the first data-line event, the content alone for
\* the second one: three lines printed
C15_Witness ==
    /\ cfg.scoreHeader
    /\ Len(events) = 3
    /\ DataEvents = {2, 3}
    /\ Len(output) = 3
    /\ output[1].line[4].s = "X-DNSBL-Score: "
    /\ output[2].ev = 2 /\ output[2].line[4].s = ""
    /\ output[3].ev = 3 /\ output[3].line[4].s = ""

----------------------------------------------------------------------------
(* C16: with the score header enabled and a known score, the header is     *)
(* injected exactly once per message: the first data-line event of every   *)
(* mail transaction of a session is answered with the header line and the  *)
(* content line, and no other data-line event is.                          *)

\* the n-th input line opens a message of session sid: the link-connect, or
\* a mail-from event
OpensMessage(k, sid) ==
    \/ IsConnect(events[k], sid)
    \/ events[k].stream = "filter" /\ events[k].phase = "mail-from" /\ events[k].sid = sid

\* no data-line event of the session since its message was opened
FirstOfMessage(n) ==
    \E k \in 1..(n - 1) :
        /\ OpensMessage(k, events[n].sid)
        /\ \A j \in (k + 1)..(n - 1) :
              ~(events[j].stream = "filter" /\ events[j].phase = "data-line"
                /\ events[j].sid = events[n].sid)

C16_PerMessage ==
    cfg.scoreHeader =>
        \A n \in DataEvents :
            KnownScore(n) => Len(ResponsesFor(n)) = IF FirstOfMessage(n) THEN 2 ELSE 1

----------------------------------------------------------------------------
(* C17: the process prints nothing until it has read the line              *)
(* config|ready, dropping every line before it; when the input ends before *)
(* that line the process exits having printed nothing.  After it the       *)
(* process prints one register line for each of the 2 reporter phases and  *)
(* one for each of the 11 filter phases, then register|ready; no event is  *)
(* processed and no response printed before register|ready.                *)

\* the number of the first input line that is "config|ready" (0: none)
HandshakeAt ==
    LET R == {i \in 1..Len(events) : events[i] = ConfigLine("ready")}
    IN  IF R = {} THEN 0 ELSE CHOOSE i \in R : \A j \in R : i <= j

\* nothing has been done for any input line
NothingDone ==
    /\ sessions = NoSessions
    /\ version = <<0, 0>>
    /\ tasks = {} /\ mainOut = <<>> /\ wbuf = <<>>

C17_Startup ==
    /\ Cardinality(ReporterPhases) = 2
    /\ Cardinality(FilterPhases) = 11
    /\ mainPc = "config" <=> HandshakeAt = 0
    /\ mainPc = "config" => output = <<>> /\ NothingDone
    /\ mainPc = "init" =>
          /\ NothingDone
          /\ Len(events) = HandshakeAt
          /\ Len(output) <= 1
          /\ \A k \in DOMAIN Registered(2) : Registered(2)[k] = 1
          /\ \A k \in DOMAIN Registered(3) : Registered(3)[k] = 1
    /\ mainPc \notin {"config", "init"} =>
          /\ Len(output) >= 2
          /\ output[1].line = <<"register", [k \in ReporterPhases |-> 1],
                                 [k \in FilterPhases |-> 1]>>
          /\ output[2].line = <<"register", "ready">>
          /\ \A i \in 3..Len(output) :
                output[i].line[1] # "register" /\ output[i].ev > HandshakeAt
          /\ \A n \in 1..HandshakeAt : PendingFor(n) = 0

\* a link-connect line came before config|ready and was dropped; the
\* handshake was made, and the verdict of the connect event of the session
\* connected after it is the third entry of the output
C17_Witness ==
    /\ Len(events) = 4
    /\ IsConnect(events[1], Field("s1"))
    /\ HandshakeAt = 2
    /\ IsConnect(events[3], Field("s1"))
    /\ Len(output) = 3
    /\ output[3].line[1] = "filter-result"
    /\ output[3].ev = 4

----------------------------------------------------------------------------
(* C18: after the handshake, a line with fewer than six fields, a line     *)
(* whose stream is neither report nor filter, and a line whose phase is    *)
(* not in the table of its stream each end the process at once: the line   *)
(* gets no response, leaves the session store as it was, and no later      *)
(* line is processed.                                                      *)

Malformed(line) ==
    \/ line.sid = <<>>
    \/ line.stream \notin {"report", "filter"}
    \/ line.stream = "report" /\ line.phase \notin {"link-connect", "link-disconnect"}
    \/ line.stream = "filter" /\
          line.phase \notin {"connect", "helo", "ehlo", "starttls", "auth", "mail-from",
                             "rcpt-to", "data", "data-line", "commit", "quit"}

\* the malformed line is the last one read, the process has ended, and
\* nothing answers the line
C18_Last ==
    \A n \in (HandshakeAt + 1)..Len(events) :
        (HandshakeAt > 0 /\ Malformed(events[n])) =>
            /\ status = "fatal"
            /\ n = Len(events)
            /\ PendingFor(n) = 0
            /\ WrittenFor(n) = 0

\* the step that reads a malformed line leaves the store and the responses
\* of the lines before it as they are
C18_StoreKept ==
    (mainPc = "read" /\ Len(events') = Len(events) + 1
     /\ Malformed(events'[Len(events')])) =>
        /\ sessions' = sessions
        /\ tasks' = tasks /\ wbuf' = wbuf /\ output' = output
        /\ mainOut' = <<>>
        /\ status' = "fatal"

C18_Fatal == []C18_Last /\ [][C18_StoreKept]_vars

\* a session is connected and the line "filter|0.5|0|smtp-in|link-disconnect|s1"
\* has ended the process: the session is still in the store
C18_Witness ==
    /\ status = "fatal"
    /\ Len(events) = HandshakeAt + 2
    /\ HandshakeAt > 0
    /\ events[Len(events)].stream = "filter"
    /\ events[Len(events)].phase = "link-disconnect"
    /\ Field("s1") \in DOMAIN sessions

----------------------------------------------------------------------------
(* C19: a link-connect event for a session id that is in the store ends    *)
(* the process, and the state of the session that is there (score, delay,  *)
(* first-line flag) is not replaced.                                       *)

\* the n-th input line is a link-connect for a session that is there
Duplicate(n) ==
    IsConnect(events[n], events[n].sid) /\ LiveBefore(n, events[n].sid)

----------------------------------------------------------------------------
(* C20: the thresholds blockAbove and junkAbove are compared after         *)
(* truncation to a signed 8-bit value: for every known score the verdict   *)
(* with a threshold t is the verdict with ((t + 128) mod 256) - 128.  So a *)
(* threshold in 128..255 behaves as disabled and a threshold 256 + k, with *)
(* k in 0..127, flags exactly the scores > k.                              *)

Wrapped(t) == ((t + 128) % 256) - 128

C20_Wrap ==
    \A a \in Answers :
        a.score \in 0..127 =>
            /\ a.v = ExpectedVerdict([cfg EXCEPT !.blockAbove = Wrapped(cfg.blockAbove),
                                                !.junkAbove = Wrapped(cfg.junkAbove)],
                                     a.score, events[a.ev].phase)
            /\ cfg.blockAbove \in 128..255 => a.v \in {"junk", "proceed"}
            /\ cfg.junkAbove \in 128..255 => a.v # "junk"
            /\ (cfg.blockAbove \in 256..383 /\ events[a.ev].phase = cfg.blockPhase) =>
                  (a.v = DisconnectMsg <=> a.score > cfg.blockAbove - 256)
            /\ (cfg.blockAbove \in 128..255 /\ cfg.junkAbove \in 256..383
                /\ events[a.ev].phase = "connect") =>
                  (a.v = "junk" <=> a.score > cfg.junkAbove - 256)

\* blockAbove 256 at the block phase helo: the session with the score 1 is
\* disconnected
C20_Witness ==
    /\ cfg.blockAbove = 256 /\ cfg.blockPhase = "helo"
    /\ \E i \in 1..Len(output) :
          /\ output[i].line[4].s = DisconnectMsg
          /\ output[i].score = 1
          /\ events[output[i].ev].phase = "helo"

====
